---- MODULE Spec2Model ----
(***************************************************************************)
(* A model of gen_poster.py: the poster-wall workflow gen_poster_workflow  *)
(* and the helpers it calls (get_poster_primary_color, the image listing   *)
(* and ordering, the column assembler, the title overlay).                 *)
(*                                                                         *)
(* Values of the model                                                     *)
(*   a colour       a tuple of channel values, <<r, g, b>> or <<r,g,b,a>>  *)
(*   an image       [mode, pixels]: the pixel population in scan order     *)
(*   a folder entry [stem, ext, kind, readable, mode, pixels]              *)
(*   a string that the code splits or measures (the English title) is a    *)
(*   sequence of one-character strings; other strings are TLA+ strings     *)
(*   a path         a tuple of path components                             *)
(* A Python exception inside the workflow's try block moves pc to          *)
(* "except", where the top-level handler runs.                             *)
(* create_gradient_background and get_random_color are also called on     *)
(* their own (variable call), and the libraries can be processed one after *)
(* the other (variable finished).                                          *)
(***************************************************************************)
EXTENDS Integers, Sequences, FiniteSets, TLC

VARIABLES
    JELLYFIN_CONFIG,    \* config.JELLYFIN_CONFIG: a dict, with or without SERVER_NAME
    POSTER_GEN_CONFIG,  \* config.POSTER_GEN_CONFIG
    TEMPLATE_MAPPING,   \* config.TEMPLATE_MAPPING: a list of dicts
    name,               \* the argument of gen_poster_workflow
    folder,             \* the entries of POSTER_FOLDER/<name>
    pc,                 \* the position of the workflow
    sampled,            \* what get_poster_primary_color returned
    gradient,           \* <<color1, color2>> of the gradient background, or <<>>
    dirs,               \* directories created by the workflow
    poster_files,       \* the sorted, truncated list of image entries
    col_index,          \* the column the loop is at
    column_image,       \* the pastes on the column canvas being processed
    cells,              \* every paste made on a column canvas so far
    placed,             \* the columns pasted on the result image
    random_color,       \* the accent colour
    titles,             \* [ch, eng]: the resolved titles
    english_sizing,     \* word_count, max_chars_per_line and font_size of lines 903-916
    drawn,              \* the overlay elements drawn, in order
    written,            \* the paths written with Image.save, in order
    ret,                \* "running", "True", "False", or "raised"
    finished,           \* the runs that are over: [name, written, ret], in order
    call                \* a helper called on its own: its arguments, position, result

vars == <<JELLYFIN_CONFIG, POSTER_GEN_CONFIG, TEMPLATE_MAPPING, name, folder, pc,
          sampled, gradient, dirs, poster_files, col_index, column_image, cells,
          placed, random_color, titles, english_sizing, drawn, written, ret,
          finished, call>>

(***************************************************************************)
(* Bounds of the model.                                                    *)
(***************************************************************************)
\* The most unreadable image files a folder of the model holds.
MaxBad == 2

\* The most pixels in the population of a reference image.
MaxPixels == 3

\* The most tokens in an English title.
MaxTokens == 4

\* The widest and the tallest gradient background.
MaxWidth == 4

MaxHeight == 2

\* The longest side of an image handed to get_random_color on its own.
MaxSide == 5

(***************************************************************************)
(* Sequence helpers.                                                       *)
(***************************************************************************)
Range(s) == {s[i] : i \in DOMAIN s}

Min(a, b) == IF a <= b THEN a ELSE b

Max(a, b) == IF a >= b THEN a ELSE b

\* s[lo..hi-1] of Python, 0-based, clipped to the sequence.
Slice(s, lo, hi) == SubSeq(s, lo + 1, Min(hi, Len(s)))

(***************************************************************************)
(* Opening an image file: Image.open(path) raises unless the path is a     *)
(* regular file that holds a decodable image.                              *)
(***************************************************************************)
Opens(fld, stem, ext) ==
    \E e \in fld : e.stem = stem /\ e.ext = ext /\ e.kind = "file" /\ e.readable

ImageAt(fld, stem, ext) ==
    CHOOSE e \in fld : e.stem = stem /\ e.ext = ext /\ e.kind = "file" /\ e.readable

(***************************************************************************)
(* get_poster_primary_color.  An entry's pixels are the population of the  *)
(* image as the sampler sees it after img.resize((100, 150)).              *)
(***************************************************************************)
\* The colour returned at lines 604 and 628: one colour, not a pair.
DefaultColor == <<150, 100, 50, 255>>

\* img.convert('RGBA') of an image that has no alpha channel.
ConvertRGBA(img) ==
    IF img.mode = "RGBA"
    THEN img.pixels
    ELSE [i \in DOMAIN img.pixels |-> SubSeq(img.pixels[i], 1, 3) \o <<255>>]

\* The pixel passes the first filter: a >= 200 and 30 <= (r+g+b)/3 <= 220.
KeepsPixel(p) ==
    /\ ~(p[4] < 200)
    /\ ~(p[1] + p[2] + p[3] < 90 \/ p[1] + p[2] + p[3] > 660)

RECURSIVE FilteredPixels(_)
FilteredPixels(pixels) ==
    IF pixels = <<>> THEN <<>>
    ELSE LET p == Head(pixels)
             rest == FilteredPixels(Tail(pixels))
         IN IF KeepsPixel(p) THEN << <<p[1], p[2], p[3], 255>> >> \o rest ELSE rest

\* The fallback population of line 600.
RECURSIVE AlphaOnlyPixels(_)
AlphaOnlyPixels(pixels) ==
    IF pixels = <<>> THEN <<>>
    ELSE LET p == Head(pixels)
             rest == AlphaOnlyPixels(Tail(pixels))
         IN IF p[4] > 100 THEN << <<p[1], p[2], p[3], 255>> >> \o rest ELSE rest

CountOf(s, c) == Cardinality({i \in DOMAIN s : s[i] = c})

FirstIndexOf(s, c) == CHOOSE i \in DOMAIN s : s[i] = c /\ \A j \in 1..(i - 1) : s[j] # c

\* Counter(s).most_common(): by count, the largest first; equal counts in the
\* order first encountered.
RECURSIVE MostCommonOf(_, _)
MostCommonOf(s, left) ==
    IF left = {} THEN <<>>
    ELSE LET best == CHOOSE c \in left : \A d \in left :
                         \/ CountOf(s, c) > CountOf(s, d)
                         \/ /\ CountOf(s, c) = CountOf(s, d)
                            /\ FirstIndexOf(s, c) <= FirstIndexOf(s, d)
         IN <<best>> \o MostCommonOf(s, left \ {best})

most_common(s, n) == Slice(MostCommonOf(s, Range(s)), 0, n)

\* What get_poster_primary_color(path) returns for the file stem+ext of fld.
\* An exception inside its try block (Image.open failing, the IndexError of
\* common_colors[1] when one colour survives) returns DefaultColor.
get_poster_primary_color(fld, stem, ext) ==
    IF ~Opens(fld, stem, ext) THEN DefaultColor
    ELSE LET pixels == ConvertRGBA(ImageAt(fld, stem, ext))
             first == FilteredPixels(pixels)
             filtered_pixels == IF first = <<>> THEN AlphaOnlyPixels(pixels) ELSE first
             common_colors == most_common(filtered_pixels, 5)
         IN IF filtered_pixels = <<>> THEN DefaultColor
            ELSE IF Len(common_colors) < 2 THEN DefaultColor
            ELSE <<common_colors[1], common_colors[2]>>

\* color1, color2 = <value>: the unpacking succeeds on exactly two items.
UnpacksToTwo(value) == Len(value) = 2

(***************************************************************************)
(* The image listing of gen_poster_workflow (lines 671-709).               *)
(***************************************************************************)
supported_formats == {".jpg", ".jpeg", ".png", ".bmp", ".gif", ".webp"}

MutNumericOrder == <<"1", "2", "3", "4", "5", "6", "7", "8", "9">>

custom_order == <<"3", "1", "5", "4", "2", "6", "9", "8", "7">>

\* order_map[stem]: the 0-based position of the stem in custom_order.
order_map(stem) == (CHOOSE i \in DOMAIN custom_order : custom_order[i] = stem) - 1

\* str.lower() on the extensions the model's folders hold.
Lower(ext) ==
    CASE ext = ".JPG" -> ".jpg"
      [] ext = ".PNG" -> ".png"
      [] ext = ".TXT" -> ".txt"
      [] OTHER -> ext

\* The condition of the list comprehension, lines 683-686.
IsPosterFile(e) ==
    /\ e.kind = "file"
    /\ Lower(e.ext) \in supported_formats
    /\ e.stem \in Range(custom_order)

\* sorted(..., key=order_map[stem]) of a set of entries.
RECURSIVE SortedByOrder(_)
SortedByOrder(S) ==
    IF S = {} THEN <<>>
    ELSE LET first == CHOOSE e \in S :
                          \A f \in S : order_map(e.stem) <= order_map(f.stem)
         IN <<first>> \o SortedByOrder(S \ {first})

ListPosterFiles(fld) == SortedByOrder({e \in fld : IsPosterFile(e)})

\* poster_files[:max_posters], line 700.
Truncated(files, rows, cols) == Slice(files, 0, rows * cols)

\* grouped_posters, lines 707-709: the groups of `rows` files, the last one
\* possibly shorter.
GroupCount(files, rows) == (Len(files) + rows - 1) \div rows

Group(files, rows, k) == Slice(files, k * rows, k * rows + rows)

(***************************************************************************)
(* The column assembler (lines 719-796) and the placement (808-857).       *)
(***************************************************************************)
column_height(cfg) == cfg.ROWS * cfg.CELL_HEIGHT + (cfg.ROWS - 1) * cfg.MARGIN

\* add_shadow (lines 12-49): the size of the image it returns, lines 26-27.
\* The result of line 47 has the size of the shadow canvas.
MutShadowSizeNoBlur(size, offset, blur_radius) ==
    <<size[1] + offset[1], size[2] + offset[2]>>

add_shadow_size(size, offset, blur_radius) ==
    <<size[1] + offset[1] + blur_radius * 2, size[2] + offset[2] + blur_radius * 2>>

\* Lines 725-726.
shadow_extra_width == 20 + 20 * 2

shadow_extra_height == 20 + 20 * 2

\* The size of the column canvas, lines 729-733.
column_canvas_size(cfg) ==
    <<cfg.CELL_WIDTH + shadow_extra_width, column_height(cfg) + shadow_extra_height>>

\* The size of a cell after resize (742-744) and add_shadow (769-779).
shadowed_cell_size(cfg) ==
    add_shadow_size(<<cfg.CELL_WIDTH, cfg.CELL_HEIGHT>>, <<20, 20>>, 20)

\* y_position of the image at row_index of its column, line 782.
y_position(cfg, row_index) == row_index * (cfg.CELL_HEIGHT + cfg.MARGIN)

\* The pastes of one column: one per image that opens, at the y of its index
\* in the column; an image that fails to open is skipped (lines 736-796).
MutCompactedPastes(cfg, column_posters, col) ==
    { [col |-> col, row_index |-> i - 1, stem |-> column_posters[i].stem,
       x |-> 0,
       y |-> y_position(cfg, Cardinality({j \in 1..(i - 1) : column_posters[j].readable})),
       size |-> shadowed_cell_size(cfg)] :
        i \in {j \in DOMAIN column_posters : column_posters[j].readable} }

ColumnPastes(cfg, column_posters, col) ==
    { [col |-> col, row_index |-> i - 1, stem |-> column_posters[i].stem,
       x |-> 0, y |-> y_position(cfg, i - 1), size |-> shadowed_cell_size(cfg)] :
        i \in {j \in DOMAIN column_posters : column_posters[j].readable} }

\* floor(sqrt(n)), by bisection.
RECURSIVE IsqrtIn(_, _, _)
IsqrtIn(n, lo, hi) ==
    IF lo >= hi THEN lo
    ELSE LET mid == (lo + hi + 1) \div 2
         IN IF mid * mid <= n THEN IsqrtIn(n, mid, hi) ELSE IsqrtIn(n, lo, mid - 1)

Isqrt(n) == IsqrtIn(n, 0, Min(n, 46340))

\* rotation_canvas_size, lines 810-816: int(sqrt(w^2 + h^2) * 1.5), which is
\* floor(sqrt(9 * (w^2 + h^2) / 4)).
rotation_canvas_size(cfg) ==
    LET w == cfg.CELL_WIDTH + shadow_extra_width
        h == column_height(cfg) + shadow_extra_height
    IN Isqrt((9 * (w * w + h * h)) \div 4)

\* The anchor of a column on the result image, lines 842-850.
column_center(cfg, col) ==
    LET x0 == cfg.START_X + col * cfg.COLUMN_SPACING
        y0 == cfg.START_Y + column_height(cfg) \div 2
    IN IF col = 1 THEN <<x0 + cfg.CELL_WIDTH - 50, y0>>
       ELSE IF col = 2 THEN <<x0 + cfg.CELL_WIDTH * 2 - 40, y0 - 155>>
       ELSE <<x0, y0>>

(***************************************************************************)
(* The titles (lines 872-888).                                             *)
(***************************************************************************)
\* template.get(key): None when the dict has no such key.
DictGet(template, key) == IF key \in DOMAIN template THEN template[key] ELSE "None"

MutLastMatchedIndex(mapping, nm) ==
    IF \E i \in DOMAIN mapping : DictGet(mapping[i], "library_name") = nm
    THEN CHOOSE i \in DOMAIN mapping :
             /\ DictGet(mapping[i], "library_name") = nm
             /\ \A j \in (i + 1)..Len(mapping) : DictGet(mapping[j], "library_name") # nm
    ELSE 0

\* The index of the first template whose library_name is nm, 0 when none is.
MatchedIndex(mapping, nm) ==
    IF \E i \in DOMAIN mapping : DictGet(mapping[i], "library_name") = nm
    THEN CHOOSE i \in DOMAIN mapping :
             /\ DictGet(mapping[i], "library_name") = nm
             /\ \A j \in 1..(i - 1) : DictGet(mapping[j], "library_name") # nm
    ELSE 0

\* library_ch_name and library_eng_name after lines 873-888.
ResolveTitles(mapping, nm) ==
    LET m == MatchedIndex(mapping, nm)
    IN IF m = 0 THEN [ch |-> nm, eng |-> <<>>]
       ELSE [ch |-> IF "library_ch_name" \in DOMAIN mapping[m]
                    THEN mapping[m].library_ch_name ELSE nm,
             eng |-> IF "library_eng_name" \in DOMAIN mapping[m]
                     THEN mapping[m].library_eng_name ELSE <<>>]

(***************************************************************************)
(* Splitting the English title.  A text is a sequence of characters.       *)
(***************************************************************************)
HasSpace(text) == \E i \in DOMAIN text : text[i] = " "

FirstSpace(text) ==
    CHOOSE i \in DOMAIN text : text[i] = " " /\ \A j \in 1..(i - 1) : text[j] # " "

\* text.split(" "): one item between every two separators, empty items kept.
RECURSIVE SplitOnSpace(_)
SplitOnSpace(text) ==
    IF ~HasSpace(text) THEN <<text>>
    ELSE <<SubSeq(text, 1, FirstSpace(text) - 1)>>
             \o SplitOnSpace(SubSeq(text, FirstSpace(text) + 1, Len(text)))

\* text.split(): runs of whitespace separate, no empty item is returned.
SplitWhitespace(text) == SelectSeq(SplitOnSpace(text), LAMBDA t : t # <<>>)

(***************************************************************************)
(* Exact arithmetic for 50 * (10 / m) ** 0.8: natural numbers beyond 2^31  *)
(* as little-endian sequences of base-10000 digits.                        *)
(***************************************************************************)
RECURSIVE BigTimes(_, _, _)
BigTimes(a, n, carry) ==
    IF a = <<>>
    THEN IF carry = 0 THEN <<>> ELSE <<carry % 10000>> \o BigTimes(<<>>, n, carry \div 10000)
    ELSE <<(Head(a) * n + carry) % 10000>>
             \o BigTimes(Tail(a), n, (Head(a) * n + carry) \div 10000)

RECURSIVE BigTimesPow(_, _, _)
BigTimesPow(a, n, e) == IF e = 0 THEN a ELSE BigTimesPow(BigTimes(a, n, 0), n, e - 1)

RECURSIVE BigLeq(_, _)
BigLeq(a, b) ==
    IF Len(a) # Len(b) THEN Len(a) < Len(b)
    ELSE IF a = <<>> THEN TRUE
    ELSE IF a[Len(a)] # b[Len(b)] THEN a[Len(a)] < b[Len(b)]
    ELSE BigLeq(SubSeq(a, 1, Len(a) - 1), SubSeq(b, 1, Len(b) - 1))

\* k <= base * (10 / m) ** 0.8, that is k^5 * m^4 <= base^5 * 10^4.
AtMostScaled(k, base, m) ==
    BigLeq(BigTimesPow(BigTimesPow(<<1>>, k, 5), m, 4),
           BigTimesPow(BigTimesPow(<<1>>, base, 5), 10, 4))

\* The integer part of base * (10 / m) ** 0.8, by bisection.
RECURSIVE ScaledFloorIn(_, _, _, _)
ScaledFloorIn(base, m, lo, hi) ==
    IF lo >= hi THEN lo
    ELSE LET mid == (lo + hi + 1) \div 2
         IN IF AtMostScaled(mid, base, m)
            THEN ScaledFloorIn(base, m, mid, hi)
            ELSE ScaledFloorIn(base, m, lo, mid - 1)

\* base * (10 / m) ** 0.8 as [floor, exact]: its integer part, and whether it
\* is that integer.
ScaledSize(base, m) ==
    LET k == ScaledFloorIn(base, m, 0, 10 * base)
    IN [floor |-> k,
        exact |-> BigLeq(BigTimesPow(BigTimesPow(<<1>>, base, 5), 10, 4),
                         BigTimesPow(BigTimesPow(<<1>>, k, 5), m, 4))]

\* max(font_size, 30), line 914.
FlooredAt(size, least) ==
    IF size.floor < least THEN [floor |-> least, exact |-> TRUE] ELSE size

MaxOf(S) == CHOOSE x \in S : \A y \in S : y <= x

\* Lines 899-916: the sizing of the English title, or the ValueError of
\* max([]) when the title has no token.  font_size is the float of the code
\* as [floor, exact]; int(font_size) is its floor.
EnglishFontSize(library_eng_name) ==
    LET words == SplitWhitespace(library_eng_name)
        word_count == Len(words)
    IN IF word_count = 0 THEN [state |-> "ValueError"]
       ELSE LET max_chars_per_line == MaxOf({Len(words[i]) : i \in DOMAIN words})
            IN [state |-> "sized",
                word_count |-> word_count,
                max_chars_per_line |-> max_chars_per_line,
                font_size |->
                    IF max_chars_per_line > 10 \/ word_count > 3
                    THEN FlooredAt(ScaledSize(50, Max(max_chars_per_line, word_count * 3)), 30)
                    ELSE [floor |-> 50, exact |-> TRUE]]

\* draw_multiline_text_on_image (lines 110-125): the lines drawn, each with
\* its offset below the anchor.
MultilineDraws(text, font_size, line_spacing) ==
    LET lines == SplitOnSpace(text)
    IN IF Len(lines) <= 1
       THEN << [what |-> "line", text |-> text, dy |-> 0] >>
       ELSE [i \in DOMAIN lines |->
                [what |-> "line", text |-> lines[i],
                 dy |-> (i - 1) * (font_size + line_spacing)]]

\* The line count draw_multiline_text_on_image returns.
LineCount(text) == IF Len(SplitOnSpace(text)) <= 1 THEN 1 ELSE Len(SplitOnSpace(text))

\* color_block_height, line 940.
color_block_height(line_count, font_size, line_spacing) ==
    55 + (line_count - 1) * (font_size + line_spacing)

(***************************************************************************)
(* create_gradient_background with two explicit colours (lines 527-541).   *)
(* The image is a function from <<x, y>> to an RGBA colour.  The branches  *)
(* that draw random colours when color1 or color2 is None are not taken.   *)
(***************************************************************************)
\* int(n / d) for d > 0: the quotient truncated toward zero.  The float
\* quotient of lines 534-536 is within 1e-13 of n/d, which is an integer or
\* at least 1/d away from one, so int() of it is the truncation of n/d.
IntOf(n, d) == IF n >= 0 THEN n \div d ELSE 0 - ((0 - n) \div d)

\* int(color1[k] + (color2[k] - color1[k]) * x / width), lines 534-536.
MutInterpolateNext(c1, c2, x, width) == IntOf(c1 * width + (c2 - c1) * (x + 1), width)

Interpolate(c1, c2, x, width) == IntOf(c1 * width + (c2 - c1) * x, width)

\* The fill of line 539.
ColumnFill(color1, color2, x, width) ==
    << Interpolate(color1[1], color2[1], x, width),
       Interpolate(color1[2], color2[2], x, width),
       Interpolate(color1[3], color2[3], x, width), 255 >>

\* A colour as an RGBA image stores it: a missing alpha is 255.
InkOf(color) == IF Len(color) = 3 THEN color \o <<255>> ELSE color

\* Image.new("RGBA", (width, height), color), line 528.
NewImage(width, height, color) ==
    [p \in (0..(width - 1)) \X (0..(height - 1)) |-> InkOf(color)]

\* draw.line([(x, 0), (x, height)], fill=fill), line 539: the pixels of the
\* segment that lie inside the image.
DrawLine(img, x, height, fill) ==
    [p \in DOMAIN img |-> IF p[1] = x /\ p[2] \in 0..height THEN fill ELSE img[p]]

(***************************************************************************)
(* get_random_color (lines 138-167): the colours it can return for an      *)
(* entry.  An image of the model is one row of pixels, so its size is      *)
(* (Len(pixels), 1).                                                       *)
(***************************************************************************)
\* The values the model draws for random.randint(50, 200).
FallbackChannels == {50, 200}

\* The colours of the fallback, lines 162-167.
FallbackColours ==
    {<<r, g, b, 255>> : r \in FallbackChannels, g \in FallbackChannels,
                        b \in FallbackChannels}

\* The values of random.randint(int(n * 0.5), int(n * 0.8)), lines 145-146.
RandomCoordinates(n) == ((n * 5) \div 10)..((n * 8) \div 10)

\* The colour returned for the pixel p of an image of the mode, lines 149-158.
\* An image of another mode is greyscale here: convert("RGBA") gives
\* (l, l, l, 255).
ColourAt(mode, p) ==
    IF mode = "RGBA" THEN p
    ELSE IF mode = "RGB" THEN <<p[1] + 100, p[2] + 50, p[3], 255>>
    ELSE <<p[1], p[1], p[1], 255>>

get_random_color(e) ==
    IF ~(e.kind = "file" /\ e.readable)
    THEN FallbackColours
    ELSE {ColourAt(e.mode, e.pixels[x + 1]) : x \in RandomCoordinates(Len(e.pixels))}

(***************************************************************************)
(* The paths the workflow writes.                                          *)
(***************************************************************************)
output_path(nm) == <<"OUTPUT_FOLDER", <<nm, ".png">>>>

column_orig_path(nm, col) ==
    <<"OUTPUT_FOLDER", "columns", <<nm, "_column_", col + 1, "_original.png">>>>

column_rotated_path(nm, col) ==
    <<"OUTPUT_FOLDER", "columns", <<"column_", col + 1, "_rotated.png">>>>

\* rotation_canvas.rotate(angle, expand=True) of a square canvas by a right
\* angle keeps its size.
RotatedSize(size, angle) == size

(***************************************************************************)
(* gen_poster_workflow(name), one action per step.                         *)
(***************************************************************************)
\* Lines 636-656: the first log line reads JELLYFIN_CONFIG['SERVER_NAME'].
Start ==
    /\ pc = "start"
    /\ pc' = IF "SERVER_NAME" \in DOMAIN JELLYFIN_CONFIG THEN "sample" ELSE "except"
    /\ UNCHANGED <<finished, call, JELLYFIN_CONFIG, POSTER_GEN_CONFIG, TEMPLATE_MAPPING, name, folder,
                   sampled, gradient, dirs, poster_files, col_index, column_image,
                   cells, placed, random_color, titles, english_sizing, drawn, written, ret>>

\* Line 657: color1, color2 = get_poster_primary_color(first_image_path).
SampleColors ==
    /\ pc = "sample"
    /\ sampled' = get_poster_primary_color(folder, "2", ".jpg")
    /\ pc' = IF UnpacksToTwo(sampled') THEN "gradient" ELSE "except"
    /\ UNCHANGED <<finished, call, JELLYFIN_CONFIG, POSTER_GEN_CONFIG, TEMPLATE_MAPPING, name, folder,
                   gradient, dirs, poster_files, col_index, column_image,
                   cells, placed, random_color, titles, english_sizing, drawn, written, ret>>

\* Line 659: the gradient background from the two sampled colours.
MakeGradient ==
    /\ pc = "gradient"
    /\ gradient' = <<sampled[1], sampled[2]>>
    /\ pc' = "dirs"
    /\ UNCHANGED <<finished, call, JELLYFIN_CONFIG, POSTER_GEN_CONFIG, TEMPLATE_MAPPING, name, folder,
                   sampled, dirs, poster_files, col_index, column_image,
                   cells, placed, random_color, titles, english_sizing, drawn, written, ret>>

\* Lines 662-669.
MakeDirs ==
    /\ pc = "dirs"
    /\ dirs' = dirs \cup {<<"OUTPUT_FOLDER">>}
                    \cup (IF POSTER_GEN_CONFIG.SAVE_COLUMNS
                          THEN {<<"OUTPUT_FOLDER", "columns">>} ELSE {})
    /\ pc' = "list"
    /\ UNCHANGED <<finished, call, JELLYFIN_CONFIG, POSTER_GEN_CONFIG, TEMPLATE_MAPPING, name, folder,
                   sampled, gradient, poster_files, col_index, column_image,
                   cells, placed, random_color, titles, english_sizing, drawn, written, ret>>

\* Lines 671-712: the listing; no image returns False.
ListPosters ==
    /\ pc = "list"
    /\ IF ListPosterFiles(folder) = <<>>
       THEN /\ ret' = "False"
            /\ pc' = "done"
            /\ UNCHANGED poster_files
       ELSE /\ poster_files' = Truncated(ListPosterFiles(folder),
                                         POSTER_GEN_CONFIG.ROWS, POSTER_GEN_CONFIG.COLS)
            /\ pc' = "column"
            /\ UNCHANGED ret
    /\ col_index' = 0
    /\ UNCHANGED <<finished, call, JELLYFIN_CONFIG, POSTER_GEN_CONFIG, TEMPLATE_MAPPING, name, folder,
                   sampled, gradient, dirs, column_image,
                   cells, placed, random_color, titles, english_sizing, drawn, written>>

\* The loop of line 714 has a column left to process.
HasColumn ==
    /\ col_index < GroupCount(poster_files, POSTER_GEN_CONFIG.ROWS)
    /\ col_index < POSTER_GEN_CONFIG.COLS

\* Lines 719-806: the column canvas of the current column.
AssembleColumn ==
    /\ pc = "column"
    /\ HasColumn
    /\ column_image' = ColumnPastes(POSTER_GEN_CONFIG,
                            Group(poster_files, POSTER_GEN_CONFIG.ROWS, col_index),
                            col_index)
    /\ cells' = cells \cup column_image'
    /\ written' = IF POSTER_GEN_CONFIG.SAVE_COLUMNS
                  THEN Append(written, column_orig_path(name, col_index))
                  ELSE written
    /\ pc' = "rotate"
    /\ UNCHANGED <<finished, call, JELLYFIN_CONFIG, POSTER_GEN_CONFIG, TEMPLATE_MAPPING, name, folder,
                   sampled, gradient, dirs, poster_files, col_index,
                   placed, random_color, titles, english_sizing, drawn, ret>>

\* Lines 808-857: the column is rotated and pasted on the result.
RotateAndPlace ==
    /\ pc = "rotate"
    /\ LET cfg == POSTER_GEN_CONFIG
           size == rotation_canvas_size(cfg)
           rotated == RotatedSize(size, cfg.ROTATION_ANGLE)
           center == column_center(cfg, col_index)
       IN placed' = Append(placed,
                      [col |-> col_index,
                       pastes |-> column_image,
                       column_size |-> column_canvas_size(cfg),
                       canvas |-> size,
                       paste |-> <<(size - cfg.CELL_WIDTH) \div 2,
                                   (size - column_height(cfg)) \div 2>>,
                       final |-> <<center[1] - rotated \div 2 + cfg.CELL_WIDTH \div 2,
                                   center[2] - rotated \div 2>>])
    /\ written' = IF POSTER_GEN_CONFIG.SAVE_COLUMNS
                  THEN Append(written, column_rotated_path(name, col_index))
                  ELSE written
    /\ col_index' = col_index + 1
    /\ pc' = "column"
    /\ UNCHANGED <<finished, call, JELLYFIN_CONFIG, POSTER_GEN_CONFIG, TEMPLATE_MAPPING, name, folder,
                   sampled, gradient, dirs, poster_files, column_image,
                   cells, random_color, titles, english_sizing, drawn, ret>>

\* Lines 859-870, after the loop: the accent colour from the first image.
PickAccentColor ==
    /\ pc = "column"
    /\ ~HasColumn
    /\ random_color' \in get_random_color(poster_files[1])
    /\ pc' = "native"
    /\ UNCHANGED <<finished, call, JELLYFIN_CONFIG, POSTER_GEN_CONFIG, TEMPLATE_MAPPING, name, folder,
                   sampled, gradient, dirs, poster_files, col_index, column_image,
                   cells, placed, titles, english_sizing, drawn, written, ret>>

\* Lines 872-894: the titles are resolved and the native title is drawn.
DrawNativeTitle ==
    /\ pc = "native"
    /\ titles' = ResolveTitles(TEMPLATE_MAPPING, name)
    /\ drawn' = Append(drawn, [what |-> "native", text |-> titles'.ch])
    /\ pc' = "english"
    /\ UNCHANGED <<finished, call, JELLYFIN_CONFIG, POSTER_GEN_CONFIG, TEMPLATE_MAPPING, name, folder,
                   sampled, gradient, dirs, poster_files, col_index, column_image,
                   cells, placed, random_color, english_sizing, written, ret>>

\* Lines 896-949: the English title and the accent block, when there is an
\* English title.
DrawEnglishTitle ==
    /\ pc = "english"
    /\ IF titles.eng = <<>>
       THEN /\ pc' = "save"
            /\ UNCHANGED <<english_sizing, drawn>>
       ELSE /\ english_sizing' = EnglishFontSize(titles.eng)
            /\ IF english_sizing'.state = "ValueError"
               THEN /\ pc' = "except"
                    /\ UNCHANGED drawn
               ELSE /\ drawn' = drawn
                                 \o MultilineDraws(titles.eng,
                                        english_sizing'.font_size.floor, 5)
                                 \o << [what |-> "accent",
                                        height |-> color_block_height(
                                            LineCount(titles.eng),
                                            english_sizing'.font_size.floor, 5),
                                        color |-> random_color] >>
                    /\ pc' = "save"
    /\ UNCHANGED <<finished, call, JELLYFIN_CONFIG, POSTER_GEN_CONFIG, TEMPLATE_MAPPING, name, folder,
                   sampled, gradient, dirs, poster_files, col_index, column_image,
                   cells, placed, random_color, titles, written, ret>>

\* Lines 950-955.
MutSaveTwice ==
    /\ pc = "save"
    /\ written' = written \o <<output_path(name), output_path(name)>>
    /\ ret' = "True"
    /\ pc' = "done"
    /\ UNCHANGED <<finished, call, JELLYFIN_CONFIG, POSTER_GEN_CONFIG, TEMPLATE_MAPPING, name, folder,
                   sampled, gradient, dirs, poster_files, col_index, column_image,
                   cells, placed, random_color, titles, english_sizing, drawn>>

SaveResult ==
    /\ pc = "save"
    /\ written' = Append(written, output_path(name))
    /\ ret' = "True"
    /\ pc' = "done"
    /\ UNCHANGED <<finished, call, JELLYFIN_CONFIG, POSTER_GEN_CONFIG, TEMPLATE_MAPPING, name, folder,
                   sampled, gradient, dirs, poster_files, col_index, column_image,
                   cells, placed, random_color, titles, english_sizing, drawn>>

\* Lines 957-962: what the handler ends in.  Its own log line reads
\* SERVER_NAME again; a KeyError there leaves the function as an exception.
MutHandlerReturnsTrue(jellyfin) ==
    IF "SERVER_NAME" \in DOMAIN jellyfin THEN "True" ELSE "raised"

HandlerOutcome(jellyfin) ==
    IF "SERVER_NAME" \in DOMAIN jellyfin THEN "False" ELSE "raised"

HandleException ==
    /\ pc = "except"
    /\ ret' = HandlerOutcome(JELLYFIN_CONFIG)
    /\ pc' = "done"
    /\ UNCHANGED <<finished, call, JELLYFIN_CONFIG, POSTER_GEN_CONFIG, TEMPLATE_MAPPING, name, folder,
                   sampled, gradient, dirs, poster_files, col_index, column_image,
                   cells, placed, random_color, titles, english_sizing, drawn, written>>

Next ==
    \/ Start
    \/ SampleColors
    \/ MakeGradient
    \/ MakeDirs
    \/ ListPosters
    \/ AssembleColumn
    \/ RotateAndPlace
    \/ PickAccentColor
    \/ DrawNativeTitle
    \/ DrawEnglishTitle
    \/ SaveResult
    \/ HandleException

(***************************************************************************)
(* create_gradient_background(width, height, color1, color2) called on     *)
(* its own, one action per step.  The workflow stays idle.                 *)
(***************************************************************************)
\* Lines 528-529: the image is created, filled with color1.
GradientNew ==
    /\ call.fn = "create_gradient_background" /\ call.state = "new"
    /\ call' = [call EXCEPT !.state = "loop",
                            !.gradient = NewImage(call.width, call.height, call.color1)]
    /\ UNCHANGED <<finished, JELLYFIN_CONFIG, POSTER_GEN_CONFIG, TEMPLATE_MAPPING, name,
                   folder, pc, sampled, gradient, dirs, poster_files, col_index,
                   column_image, cells, placed, random_color, titles, english_sizing,
                   drawn, written, ret>>

\* Lines 532-539: one iteration of for x in range(width).
GradientColumn ==
    /\ call.fn = "create_gradient_background" /\ call.state = "loop"
    /\ call.x < call.width
    /\ call' = [call EXCEPT
                   !.x = @ + 1,
                   !.gradient = DrawLine(@, call.x, call.height,
                                         ColumnFill(call.color1, call.color2,
                                                    call.x, call.width))]
    /\ UNCHANGED <<finished, JELLYFIN_CONFIG, POSTER_GEN_CONFIG, TEMPLATE_MAPPING, name,
                   folder, pc, sampled, gradient, dirs, poster_files, col_index,
                   column_image, cells, placed, random_color, titles, english_sizing,
                   drawn, written, ret>>

\* Line 541: return gradient, when range(width) is exhausted.
GradientReturn ==
    /\ call.fn = "create_gradient_background" /\ call.state = "loop"
    /\ call.x = call.width
    /\ call' = [call EXCEPT !.state = "returned"]
    /\ UNCHANGED <<finished, JELLYFIN_CONFIG, POSTER_GEN_CONFIG, TEMPLATE_MAPPING, name,
                   folder, pc, sampled, gradient, dirs, poster_files, col_index,
                   column_image, cells, placed, random_color, titles, english_sizing,
                   drawn, written, ret>>

NextGradient == GradientNew \/ GradientColumn \/ GradientReturn

(***************************************************************************)
(* get_random_color(image_path) called on its own, one action per step.    *)
(* The image is [readable, mode, size, pixels], pixels a function from     *)
(* <<x, y>> to a pixel value.                                              *)
(***************************************************************************)
\* Lines 139-141: Image.open and img.size; a file that does not open raises.
AccentOpen ==
    /\ call.fn = "get_random_color" /\ call.state = "new"
    /\ call' = [call EXCEPT !.state = IF call.img.readable THEN "opened" ELSE "except"]
    /\ UNCHANGED <<finished, JELLYFIN_CONFIG, POSTER_GEN_CONFIG, TEMPLATE_MAPPING, name,
                   folder, pc, sampled, gradient, dirs, poster_files, col_index,
                   column_image, cells, placed, random_color, titles, english_sizing,
                   drawn, written, ret>>

\* Lines 145-146: the random point.
AccentPick ==
    /\ call.fn = "get_random_color" /\ call.state = "opened"
    /\ \E random_x \in RandomCoordinates(call.img.size[1]),
          random_y \in RandomCoordinates(call.img.size[2]) :
           call' = [call EXCEPT !.state = "picked", !.point = <<random_x, random_y>>]
    /\ UNCHANGED <<finished, JELLYFIN_CONFIG, POSTER_GEN_CONFIG, TEMPLATE_MAPPING, name,
                   folder, pc, sampled, gradient, dirs, poster_files, col_index,
                   column_image, cells, placed, random_color, titles, english_sizing,
                   drawn, written, ret>>

\* Lines 149-158: getpixel and the return; getpixel outside the image raises.
AccentReturn ==
    /\ call.fn = "get_random_color" /\ call.state = "picked"
    /\ IF call.point \in DOMAIN call.img.pixels
       THEN call' = [call EXCEPT !.state = "returned",
                                 !.result = ColourAt(call.img.mode,
                                                     call.img.pixels[call.point])]
       ELSE call' = [call EXCEPT !.state = "except"]
    /\ UNCHANGED <<finished, JELLYFIN_CONFIG, POSTER_GEN_CONFIG, TEMPLATE_MAPPING, name,
                   folder, pc, sampled, gradient, dirs, poster_files, col_index,
                   column_image, cells, placed, random_color, titles, english_sizing,
                   drawn, written, ret>>

\* Lines 159-167: the handler returns a random colour.
AccentFallback ==
    /\ call.fn = "get_random_color" /\ call.state = "except"
    /\ \E c \in FallbackColours :
           call' = [call EXCEPT !.state = "returned", !.result = c]
    /\ UNCHANGED <<finished, JELLYFIN_CONFIG, POSTER_GEN_CONFIG, TEMPLATE_MAPPING, name,
                   folder, pc, sampled, gradient, dirs, poster_files, col_index,
                   column_image, cells, placed, random_color, titles, english_sizing,
                   drawn, written, ret>>

NextAccent == AccentOpen \/ AccentPick \/ AccentReturn \/ AccentFallback

(***************************************************************************)
(* The inputs of the model.                                                *)
(***************************************************************************)
Digits == Range(custom_order)

\* The populations of the model's .jpg files: two colours, or one.
TwoTone == << <<200, 50, 50>>, <<40, 80, 160>> >>

OneTone == << <<90, 90, 90>>, <<90, 90, 90>> >>

\* <d>.jpg in one of the states ok, uniform (one colour), bad (unreadable).
PosterEntry(d, state) ==
    [stem |-> d, ext |-> ".jpg", kind |-> "file", readable |-> state # "bad",
     mode |-> "RGB",
     pixels |-> IF state = "ok" THEN TwoTone ELSE IF state = "uniform" THEN OneTone ELSE <<>>]

\* Entries the listing must leave out: 10.JPG, 1.txt, and a directory 7.png.
NoiseEntries ==
    { [stem |-> "10", ext |-> ".JPG", kind |-> "file", readable |-> TRUE,
       mode |-> "RGB", pixels |-> TwoTone],
      [stem |-> "1", ext |-> ".txt", kind |-> "file", readable |-> TRUE,
       mode |-> "RGB", pixels |-> TwoTone],
      [stem |-> "7", ext |-> ".png", kind |-> "dir", readable |-> FALSE,
       mode |-> "RGB", pixels |-> <<>>] }

FolderOf(st) == {PosterEntry(d, st[d]) : d \in {x \in Digits : st[x] # "absent"}}

\* Every digit absent, ok or bad, 2.jpg also uniform; at most MaxBad bad files.
FolderStates ==
    {st \in [Digits -> {"absent", "ok", "bad", "uniform"}] :
        /\ \A d \in Digits \ {"2"} : st[d] # "uniform"
        /\ Cardinality({d \in Digits : st[d] = "bad"}) <= MaxBad}

\* The folders in which at most one digit's file is not an ordinary image.
NearlyFullStates ==
    {[d \in Digits |-> IF d = x THEN state ELSE "ok"] :
        x \in Digits, state \in {"absent", "ok", "bad"}}
    \cup {[d \in Digits |-> IF d = "2" THEN "uniform" ELSE "ok"]}

\* Three folders: all nine images, 3.jpg missing, 2.jpg unreadable.
TextFolderStates ==
    {[d \in Digits |-> IF d = x[1] THEN x[2] ELSE "ok"] :
        x \in {<<"2", "ok">>, <<"3", "absent">>, <<"2", "bad">>}}

Layouts ==
    { [ROWS |-> 3, COLS |-> 3, MARGIN |-> 22, CORNER_RADIUS |-> 46,
       ROTATION_ANGLE |-> 90, START_X |-> 835, START_Y |-> 0 - 362,
       COLUMN_SPACING |-> 100, CELL_WIDTH |-> 410, CELL_HEIGHT |-> 610,
       SAVE_COLUMNS |-> save] : save \in BOOLEAN }
    \cup
    { [ROWS |-> 2, COLS |-> 2, MARGIN |-> 0, CORNER_RADIUS |-> 0,
       ROTATION_ANGLE |-> 0, START_X |-> 835, START_Y |-> 0 - 362,
       COLUMN_SPACING |-> 100, CELL_WIDTH |-> 410, CELL_HEIGHT |-> 610,
       SAVE_COLUMNS |-> save] : save \in BOOLEAN }

Names == {"A", "B"}

\* A token of n letters.
Word(n) == [i \in 1..n |-> "a"]

Spaces(n) == [i \in 1..n |-> " "]

TokenLengths == {1, 5, 10, 11, 19}

\* The tokens joined by gaps of `gap` spaces, after `lead` spaces and before
\* `trail` spaces.
RECURSIVE Joined(_, _)
Joined(lens, gap) ==
    IF lens = <<>> THEN <<>>
    ELSE IF Len(lens) = 1 THEN Word(lens[1])
    ELSE Word(Head(lens)) \o Spaces(gap) \o Joined(Tail(lens), gap)

TitleOf(lens, lead, gap, trail) == Spaces(lead) \o Joined(lens, gap) \o Spaces(trail)

TokenLists == UNION {[1..n -> TokenLengths] : n \in 0..MaxTokens}

\* English titles: up to MaxTokens tokens, spaced plainly, with double gaps,
\* with a leading space or with a trailing space.
Titles ==
    {TitleOf(lens, sp[1], sp[2], sp[3]) :
        lens \in TokenLists, sp \in {<<0, 1, 0>>, <<0, 2, 0>>, <<1, 1, 0>>, <<0, 1, 1>>}}

Hi == <<"H", "i">>

\* The main mapping: library A has both titles, library B has no entry.
MainMapping ==
    << [library_name |-> "A", library_ch_name |-> "CH-A", library_eng_name |-> Hi] >>

EmptyDict == [k \in {} |-> ""]

\* The shapes of a template: with or without each title, an empty English
\* title, and one template without library_name.
TemplateShapes ==
    { [library_name |-> n] : n \in Names }
    \cup { [library_name |-> n, library_ch_name |-> "CH"] : n \in Names }
    \cup { [library_name |-> n, library_eng_name |-> e] : n \in Names, e \in {<<>>, Hi} }
    \cup { [library_name |-> n, library_ch_name |-> "CH", library_eng_name |-> e] :
              n \in Names, e \in {<<>>, Hi} }
    \cup { [library_ch_name |-> "CH", library_eng_name |-> Hi] }

ShapeMappings == UNION {[1..n -> TemplateShapes] : n \in 0..2}

TitleMappings == { << [library_name |-> "A", library_eng_name |-> t] >> : t \in Titles }

\* The colours of the sampler's populations: kept by the first filter (two
\* of them, one with alpha below 255), too dark, too bright, kept only by
\* the alpha-only filter, and dropped by both.
Palette ==
    { <<200, 50, 50, 255>>, <<40, 80, 160, 220>>, <<10, 10, 10, 255>>,
      <<250, 250, 250, 255>>, <<90, 90, 90, 150>>, <<90, 90, 90, 50>> }

Populations == UNION {[1..n -> Palette] : n \in 1..MaxPixels}

SampleFolders ==
    { {[stem |-> "2", ext |-> ".jpg", kind |-> "file", readable |-> TRUE,
        mode |-> "RGBA", pixels |-> p]} : p \in Populations }
    \cup {FolderOf(st) : st \in NearlyFullStates}

\* No helper is being called on its own.
NoCall == [fn |-> "none"]

(***************************************************************************)
(* The state before gen_poster_workflow(name) is called.                   *)
(***************************************************************************)
InitRun ==
    /\ pc = "start"
    /\ sampled = <<>>
    /\ gradient = <<>>
    /\ dirs = {}
    /\ poster_files = <<>>
    /\ col_index = 0
    /\ column_image = {}
    /\ cells = {}
    /\ placed = <<>>
    /\ random_color = <<>>
    /\ titles = [ch |-> "", eng |-> <<>>]
    /\ english_sizing = [state |-> "unset"]
    /\ drawn = <<>>
    /\ written = <<>>
    /\ ret = "running"
    /\ finished = <<>>
    /\ call = NoCall

\* Any folder of priority-digit files, under a configuration that has every key.
Init ==
    /\ folder \in {FolderOf(st) : st \in FolderStates}
                     \cup {FolderOf(st) \cup NoiseEntries : st \in NearlyFullStates}
                     \cup {NoiseEntries}
    /\ TEMPLATE_MAPPING = MainMapping
    /\ JELLYFIN_CONFIG = [SERVER_NAME |-> "jellyfin"]
    /\ POSTER_GEN_CONFIG \in Layouts
    /\ name \in Names
    /\ InitRun

Spec == Init /\ [][Next]_vars

\* Any reference image 2.jpg.
InitColor ==
    /\ folder \in SampleFolders
    /\ TEMPLATE_MAPPING = MainMapping
    /\ JELLYFIN_CONFIG = [SERVER_NAME |-> "jellyfin"]
    /\ POSTER_GEN_CONFIG \in Layouts
    /\ name \in Names
    /\ InitRun

SpecColor == InitColor /\ [][Next]_vars

\* Any template mapping for either name, and any English title for library A.
InitText ==
    /\ \/ /\ folder \in {FolderOf(st) : st \in TextFolderStates}
          /\ TEMPLATE_MAPPING \in ShapeMappings
          /\ name \in Names
       \/ /\ folder = FolderOf([d \in Digits |-> "ok"])
          /\ TEMPLATE_MAPPING \in TitleMappings
          /\ name = "A"
    /\ JELLYFIN_CONFIG = [SERVER_NAME |-> "jellyfin"]
    /\ POSTER_GEN_CONFIG \in {l \in Layouts : l.ROWS = 3 /\ ~l.SAVE_COLUMNS}
    /\ InitRun

SpecText == InitText /\ [][Next]_vars

\* Any configuration: JELLYFIN_CONFIG with or without SERVER_NAME.
InitConfig ==
    /\ folder \in {FolderOf(st) : st \in NearlyFullStates} \cup {{}}
    /\ TEMPLATE_MAPPING \in {MainMapping, <<>>}
    /\ JELLYFIN_CONFIG \in {[SERVER_NAME |-> "jellyfin"], EmptyDict}
    /\ POSTER_GEN_CONFIG \in Layouts
    /\ name \in Names
    /\ InitRun

SpecConfig == InitConfig /\ [][Next]_vars

(***************************************************************************)
(* The caller processes the libraries one after the other: when a run is   *)
(* over, gen_poster_workflow is called for a library not yet processed.    *)
(* The directories and files written so far stay on the disk.              *)
(***************************************************************************)
NamesDone == {finished[i].name : i \in DOMAIN finished} \cup {name}

CallNextLibrary ==
    /\ pc = "done"
    /\ finished' = Append(finished, [name |-> name, written |-> written, ret |-> ret])
    /\ name' \in Names \ NamesDone
    /\ folder' \in {FolderOf(st) : st \in TextFolderStates}
    /\ pc' = "start"
    /\ sampled' = <<>>
    /\ gradient' = <<>>
    /\ poster_files' = <<>>
    /\ col_index' = 0
    /\ column_image' = {}
    /\ cells' = {}
    /\ placed' = <<>>
    /\ random_color' = <<>>
    /\ titles' = [ch |-> "", eng |-> <<>>]
    /\ english_sizing' = [state |-> "unset"]
    /\ drawn' = <<>>
    /\ written' = <<>>
    /\ ret' = "running"
    /\ UNCHANGED <<call, JELLYFIN_CONFIG, POSTER_GEN_CONFIG, TEMPLATE_MAPPING, dirs>>

NextLibraries == Next \/ CallNextLibrary

\* The libraries of Names are processed one after the other under one
\* configuration, with or without SAVE_COLUMNS.
InitLibraries ==
    /\ folder \in {FolderOf(st) : st \in TextFolderStates}
    /\ TEMPLATE_MAPPING = MainMapping
    /\ JELLYFIN_CONFIG = [SERVER_NAME |-> "jellyfin"]
    /\ POSTER_GEN_CONFIG \in Layouts
    /\ name \in Names
    /\ InitRun

SpecLibraries == InitLibraries /\ [][NextLibraries]_vars

\* gen_poster_workflow is not running: a helper is called on its own.
IdleWorkflow ==
    /\ folder = {}
    /\ TEMPLATE_MAPPING = <<>>
    /\ JELLYFIN_CONFIG = [SERVER_NAME |-> "jellyfin"]
    /\ POSTER_GEN_CONFIG \in {l \in Layouts : l.ROWS = 3 /\ ~l.SAVE_COLUMNS}
    /\ name = "A"
    /\ pc = "idle"
    /\ sampled = <<>>
    /\ gradient = <<>>
    /\ dirs = {}
    /\ poster_files = <<>>
    /\ col_index = 0
    /\ column_image = {}
    /\ cells = {}
    /\ placed = <<>>
    /\ random_color = <<>>
    /\ titles = [ch |-> "", eng |-> <<>>]
    /\ english_sizing = [state |-> "unset"]
    /\ drawn = <<>>
    /\ written = <<>>
    /\ ret = "running"
    /\ finished = <<>>

\* Explicit colours with 8-bit channels, with and without an alpha channel:
\* the extremes, two outputs of the dominant-colour sampler, and one more.
GradientColours ==
    { <<0, 0, 0>>, <<255, 255, 255>>, <<200, 50, 50, 255>>, <<40, 80, 160, 255>>,
      <<7, 128, 250>> }

\* Any call create_gradient_background(width, height, color1, color2).
InitGradient ==
    /\ call \in [fn : {"create_gradient_background"}, state : {"new"},
                  width : 1..MaxWidth, height : 1..MaxHeight,
                  color1 : GradientColours, color2 : GradientColours,
                  x : {0}, gradient : {<<>>}]
    /\ IdleWorkflow

SpecGradient == InitGradient /\ [][NextGradient]_vars

\* The pixel values of the images handed to get_random_color, by mode: the
\* extremes, and for RGB the largest values that stay in range after the
\* shift of line 154 and the smallest that do not.  "L" is a greyscale mode.
AccentPixels(mode) ==
    IF mode = "RGBA"
    THEN { <<0, 0, 0, 0>>, <<255, 255, 255, 255>>, <<200, 50, 50, 255>> }
    ELSE IF mode = "RGB"
    THEN { <<0, 0, 0>>, <<155, 205, 255>>, <<156, 0, 0>>, <<0, 206, 0>>, <<255, 255, 255>> }
    ELSE { <<0>>, <<255>> }

\* Images of one colour, of every size up to MaxSide, and a file that does
\* not open.
AccentImages ==
    UNION { { [readable |-> TRUE, mode |-> m, size |-> <<w, h>>,
               pixels |-> [q \in (0..(w - 1)) \X (0..(h - 1)) |-> px] ] :
                 w \in 1..MaxSide, h \in 1..MaxSide, px \in AccentPixels(m) } :
            m \in {"RGBA", "RGB", "L"} }
    \cup
    { [readable |-> FALSE, mode |-> "RGB", size |-> <<0, 0>>, pixels |-> <<>>] }

\* Any call get_random_color(image_path).
InitAccent ==
    /\ call \in [fn : {"get_random_color"}, state : {"new"}, img : AccentImages,
                  point : {<<>>}, result : {<<>>}]
    /\ IdleWorkflow

SpecAccent == InitAccent /\ [][NextAccent]_vars

(***************************************************************************)
(* What the claims speak of.                                               *)
(***************************************************************************)
\* The run is over: the function returned or raised.
Returned == pc = "done"

\* How many times the path was written.
TimesWritten(path) == Cardinality({i \in DOMAIN written : written[i] = path})

FinalWritten == TimesWritten(output_path(name)) > 0

\* The digits that have a regular, readable file with a supported extension.
ValidDigits == {d \in Digits : \E e \in folder : IsPosterFile(e) /\ e.stem = d /\ e.readable}

\* The readable images that hold at least two distinct colours.
OrdinaryImages == \A e \in folder : e.readable => Cardinality(Range(e.pixels)) >= 2

(***************************************************************************)
(* C1.  gen_poster_workflow never propagates an exception to its caller:   *)
(* for every configuration, every run ends in a boolean return.            *)
(* The code does not do this: with JELLYFIN_CONFIG lacking SERVER_NAME the *)
(* handler's own log line raises KeyError, which leaves the function.      *)
(***************************************************************************)
C1_AlwaysReturnsBoolean == Returned => ret \in {"True", "False"}

(***************************************************************************)
(* C2.  get_poster_primary_color always returns a pair of colours, so the  *)
(* two-target unpacking of line 657 succeeds and a sampling failure does   *)
(* not fail the workflow.                                                  *)
(* The code does not do this: every fallback returns the single colour     *)
(* (150, 100, 50, 255), four items, and the unpacking raises ValueError.   *)
(***************************************************************************)
C2_SamplerReturnsPair == sampled # <<>> => UnpacksToTwo(sampled) /\ pc # "except"

(***************************************************************************)
(* C3.  A single missing or unreadable source image does not abort the     *)
(* workflow: when exactly one digit d of 1..9 has no readable file and the *)
(* other eight are ordinary images, the run writes the PNG and returns     *)
(* True.  The code does not do this for d = 2 (because of C2).             *)
(***************************************************************************)
C3_OneMissingImageIsSkipped ==
    (/\ Returned
     /\ OrdinaryImages
     /\ \E d \in Digits : ValidDigits = Digits \ {d})
    => ret = "True" /\ FinalWritten

(***************************************************************************)
(* C4.  With no regular file of a supported extension whose stem is a      *)
(* priority digit (the folder empty or not), the workflow never writes the *)
(* final PNG, never raises, and returns False.                             *)
(***************************************************************************)
NoPosterFile == ~\E e \in folder : IsPosterFile(e)

C4_NoImageAborts ==
    NoPosterFile => /\ ~FinalWritten
                    /\ ret \in {"running", "False"}
                    /\ (Returned => ret = "False")

\* A folder that is not empty but holds no poster file, after the run.
C4_Witness == Returned /\ NoPosterFile /\ folder # {} /\ ret = "False"

(***************************************************************************)
(* C5.  End to end: with exactly the readable files 1.jpg..9.jpg (any      *)
(* image contents), rows = cols = 3 and a name that TEMPLATE_MAPPING does  *)
(* not hold, the run returns True and writes the final PNG exactly once;   *)
(* with SAVE_COLUMNS three pre-rotation and three post-rotation column     *)
(* PNGs besides, and none without.                                         *)
(* The code does not do this when 2.jpg holds one colour (because of C2).  *)
(***************************************************************************)
NineReadableJpgs ==
    /\ Cardinality(folder) = 9
    /\ \A d \in Digits : \E e \in folder :
           e.stem = d /\ e.ext = ".jpg" /\ e.kind = "file" /\ e.readable

C5_EndToEnd ==
    (/\ Returned
     /\ NineReadableJpgs
     /\ POSTER_GEN_CONFIG.ROWS = 3 /\ POSTER_GEN_CONFIG.COLS = 3
     /\ MatchedIndex(TEMPLATE_MAPPING, name) = 0)
    => /\ ret = "True"
       /\ TimesWritten(output_path(name)) = 1
       /\ Len(written) = IF POSTER_GEN_CONFIG.SAVE_COLUMNS THEN 7 ELSE 1
       /\ POSTER_GEN_CONFIG.SAVE_COLUMNS =>
              \A col \in 0..2 : /\ TimesWritten(column_orig_path(name, col)) = 1
                                /\ TimesWritten(column_rotated_path(name, col)) = 1

(***************************************************************************)
(* C6.  The priority string "315426987" and the grid cells.                *)
(***************************************************************************)
\* The string of the claim, and the 0-based position of a digit in it.
PriorityString == <<"3", "1", "5", "4", "2", "6", "9", "8", "7">>

\* The zero-based position of every digit in the string.
Positions ==
    [d \in Range(PriorityString) |->
        (CHOOSE i \in DOMAIN PriorityString : PriorityString[i] = d) - 1]

PositionIn(d) == Positions[d]

LinearIndex(c) == c.col * POSTER_GEN_CONFIG.ROWS + c.row_index

\* C6 as claimed: every file that is used lies in the cell whose linear
\* index (column*rows + row) is the position of its digit in the string.
C6_CellIsPositionInString == \A c \in cells : LinearIndex(c) = PositionIn(c.stem)

\* How many files of the folder have a digit that comes before d in the string.
FilesBefore(d) ==
    Cardinality({e \in folder : /\ e.kind = "file"
                                /\ Lower(e.ext) \in supported_formats
                                /\ e.stem \in Range(PriorityString)
                                /\ PositionIn(e.stem) < PositionIn(d)})

\* The loop over the columns is over.
ColumnsDone == poster_files # <<>> /\ pc \in {"native", "english", "save", "done", "except"}

\* C6 as amended: the files fill the cells in the order of the string.  A file
\* that is used lies in the cell whose linear index is the number of files
\* present whose digit comes before its own (which is the position of its
\* digit exactly when every earlier digit has a file).  No more than
\* rows*cols cells are used, and every readable file whose index is below
\* rows*cols is used.
C6_CellsFollowStringOrder ==
    /\ \A c \in cells :
           /\ LinearIndex(c) = FilesBefore(c.stem)
           /\ LinearIndex(c) < POSTER_GEN_CONFIG.ROWS * POSTER_GEN_CONFIG.COLS
    /\ ColumnsDone =>
           \A d \in ValidDigits :
               FilesBefore(d) < POSTER_GEN_CONFIG.ROWS * POSTER_GEN_CONFIG.COLS
               => \E c \in cells : c.stem = d

\* After a run: a file in a cell that is not the position of its digit, and
\* a file left out because the grid was full.
C6_Witness ==
    /\ Returned /\ ret = "True"
    /\ \E c \in cells : LinearIndex(c) # PositionIn(c.stem)
    /\ \E d \in ValidDigits : \A c \in cells : c.stem # d

(***************************************************************************)
(* C7.  Within a column every image that opens is pasted at                *)
(* row_index * (cell_height + margin) for its index in the column, the     *)
(* slot of an image that fails stays empty, and the column is still        *)
(* rotated and placed.                                                     *)
(***************************************************************************)
C7_FailedSlotsStayEmpty ==
    /\ \A k \in DOMAIN placed :
           LET group == Group(poster_files, POSTER_GEN_CONFIG.ROWS, placed[k].col)
           IN /\ placed[k].col = k - 1
              /\ \A i \in DOMAIN group :
                     LET here == {c \in placed[k].pastes :
                                      c.y = (i - 1) * (POSTER_GEN_CONFIG.CELL_HEIGHT
                                                        + POSTER_GEN_CONFIG.MARGIN)}
                     IN IF group[i].readable
                        THEN \E c \in here : c.stem = group[i].stem /\ c.x = 0
                                             /\ Cardinality(here) = 1
                        ELSE here = {}
              /\ Cardinality(placed[k].pastes)
                     = Cardinality({i \in DOMAIN group : group[i].readable})
    /\ ColumnsDone =>
           Len(placed) = (Len(poster_files) + POSTER_GEN_CONFIG.ROWS - 1)
                             \div POSTER_GEN_CONFIG.ROWS

\* A placed column whose first image failed and whose second was pasted, and
\* a placed column none of whose images opened.
C7_Witness ==
    /\ \E k \in DOMAIN placed :
           LET group == Group(poster_files, POSTER_GEN_CONFIG.ROWS, placed[k].col)
           IN Len(group) >= 2 /\ ~group[1].readable /\ group[2].readable
    /\ \E k \in DOMAIN placed : placed[k].pastes = {}

(***************************************************************************)
(* C8.  Dominant colour: when one colour C (alpha >= 200, mean brightness  *)
(* in [30, 220]) is more than half of the pixels that survive the filter,  *)
(* also when it is the only surviving colour, get_poster_primary_color     *)
(* returns C with alpha 255 as the primary colour.                         *)
(* The code does not do this when C is the only surviving colour (the      *)
(* IndexError of common_colors[1]): it returns the default colour.         *)
(***************************************************************************)
\* The pixels of 2.jpg as RGBA, and those that survive the filter.
ReferencePixels == ConvertRGBA(ImageAt(folder, "2", ".jpg"))

Survivors ==
    {i \in DOMAIN ReferencePixels :
        LET p == ReferencePixels[i]
        IN p[4] >= 200 /\ p[1] + p[2] + p[3] >= 90 /\ p[1] + p[2] + p[3] <= 660}

Dominant(rgb) ==
    2 * Cardinality({i \in Survivors : SubSeq(ReferencePixels[i], 1, 3) = rgb})
        > Cardinality(Survivors)

C8_DominantIsPrimary ==
    (sampled # <<>> /\ Opens(folder, "2", ".jpg")) =>
        \A i \in Survivors :
            Dominant(SubSeq(ReferencePixels[i], 1, 3)) =>
                /\ Len(sampled) = 2
                /\ sampled[1] = SubSeq(ReferencePixels[i], 1, 3) \o <<255>>

(***************************************************************************)
(* C9.  The font size of every non-empty English title: 50 when the        *)
(* longest token has at most 10 characters and there are at most 3 tokens, *)
(* max(30, 50 * (10 / max(longest, 3 * tokens)) ** 0.8) otherwise; always  *)
(* in [30, 50], below 50 when shrunk, and strictly between 30 and 50 for   *)
(* 4 tokens of length 5.                                                   *)
(* The code does not do this for a title of spaces only: it is not empty,  *)
(* has no token, and max([]) raises ValueError.                            *)
(***************************************************************************)
\* The tokens of the title as the claim counts them: the maximal runs of
\* characters other than the space, each as <<first, last>>.
TokenSpans(text) ==
    {<<i, j>> \in (DOMAIN text) \X (DOMAIN text) :
        /\ i <= j
        /\ \A k \in i..j : text[k] # " "
        /\ (i = 1 \/ text[i - 1] = " ")
        /\ (j = Len(text) \/ text[j + 1] = " ")}

\* The integer part of 50 * (10 / m) ** 0.8 for m of 11 and more; from 19 on
\* the value is below 30.
ShrunkFloor(m) ==
    CASE m = 11 -> 46 [] m = 12 -> 43 [] m = 13 -> 40 [] m = 14 -> 38
      [] m = 15 -> 36 [] m = 16 -> 34 [] m = 17 -> 32 [] m = 18 -> 31
      [] OTHER -> 29

ClaimedSize(text) ==
    LET spans == TokenSpans(text)
        longest == MaxOf({sp[2] - sp[1] + 1 : sp \in spans})
        m == Max(longest, 3 * Cardinality(spans))
    IN IF longest <= 10 /\ Cardinality(spans) <= 3 THEN [floor |-> 50, exact |-> TRUE]
       ELSE IF ShrunkFloor(m) < 30 THEN [floor |-> 30, exact |-> TRUE]
       ELSE [floor |-> ShrunkFloor(m), exact |-> FALSE]

\* A size lies strictly between 30 and 50.
StrictlyBetween(size) ==
    /\ size.floor < 50
    /\ size.floor > 30 \/ (size.floor = 30 /\ ~size.exact)

FourTokensOfFive == TitleOf(<<5, 5, 5, 5>>, 0, 1, 0)

C9_SizeOfTitle(text, sizing) ==
    /\ sizing.state = "sized"
    /\ sizing.font_size = ClaimedSize(text)
    /\ sizing.font_size.floor >= 30
    /\ sizing.font_size.floor < 50 \/ sizing.font_size = [floor |-> 50, exact |-> TRUE]
    /\ (sizing.max_chars_per_line > 10 \/ sizing.word_count > 3) => sizing.font_size.floor < 50
    /\ text = FourTokensOfFive => StrictlyBetween(sizing.font_size)

C9_FontSizeOfEveryTitle ==
    english_sizing.state # "unset" => C9_SizeOfTitle(titles.eng, english_sizing)

(***************************************************************************)
(* C10.  The titles: the first template whose library_name is the name     *)
(* decides; with no match the native title is the name and the English     *)
(* title is empty; a matched template gives library_ch_name when it has    *)
(* one, and an empty English title when it has no library_eng_name or an   *)
(* empty one.  With an empty English title neither the English lines nor   *)
(* the accent block is drawn, and the PNG is still written and True        *)
(* returned.                                                               *)
(***************************************************************************)
Matches == {i \in DOMAIN TEMPLATE_MAPPING :
               /\ "library_name" \in DOMAIN TEMPLATE_MAPPING[i]
               /\ TEMPLATE_MAPPING[i].library_name = name}

FirstMatch == TEMPLATE_MAPPING[CHOOSE i \in Matches : \A j \in Matches : i <= j]

\* The native title has been drawn: the titles are resolved.
TitlesResolved == drawn # <<>>

C10_TitleFallback ==
    TitlesResolved =>
        /\ titles.ch = IF Matches # {} /\ "library_ch_name" \in DOMAIN FirstMatch
                       THEN FirstMatch.library_ch_name ELSE name
        /\ titles.eng = IF Matches # {} /\ "library_eng_name" \in DOMAIN FirstMatch
                        THEN FirstMatch.library_eng_name ELSE <<>>
        /\ drawn[1] = [what |-> "native", text |-> titles.ch]
        /\ titles.eng = <<>> =>
               /\ Len(drawn) = 1
               /\ pc # "except"
               /\ Returned => ret = "True" /\ TimesWritten(output_path(name)) = 1

\* After a run: the first of two templates of the name has an empty English
\* title, the second has one; nothing but the native title was drawn.
C10_Witness ==
    /\ Returned /\ ret = "True" /\ FinalWritten
    /\ Len(drawn) = 1
    /\ Cardinality(Matches) = 2
    /\ \E i \in Matches : /\ "library_eng_name" \in DOMAIN TEMPLATE_MAPPING[i]
                          /\ TEMPLATE_MAPPING[i].library_eng_name # <<>>

(***************************************************************************)
(* C11.  create_gradient_background with explicit 8-bit colours returns an *)
(* image in which every pixel of column x has, on each channel, the value  *)
(* int(c1 + (c2 - c1) * x / width) and alpha 255; column 0 is c1, every    *)
(* channel lies between c1 and c2 and changes monotonically with x, and    *)
(* column width-1 is within ceil(|c2 - c1| / width) of c2.                 *)
(***************************************************************************)
GradientReturned == call.fn = "create_gradient_background" /\ call.state = "returned"

Abs(n) == IF n >= 0 THEN n ELSE 0 - n

C11_GradientInterpolates ==
    GradientReturned =>
        \A p \in DOMAIN call.gradient : \A k \in 1..3 :
            LET x == p[1]
                w == call.width
                c1 == call.color1[k]
                c2 == call.color2[k]
                v == call.gradient[p][k]
            IN /\ v * w <= c1 * w + (c2 - c1) * x
               /\ c1 * w + (c2 - c1) * x < (v + 1) * w
               /\ call.gradient[p][4] = 255
               /\ x = 0 => v = c1
               /\ Min(c1, c2) <= v /\ v <= Max(c1, c2)
               /\ x > 0 => LET u == call.gradient[<<x - 1, p[2]>>][k]
                           IN /\ c2 >= c1 => u <= v
                              /\ c2 <= c1 => u >= v
               /\ x = w - 1 => Abs(c2 - v) <= (Abs(c2 - c1) + w - 1) \div w

\* A gradient of three columns or more between two different colours was
\* returned, and its last column is short of color2.
C11_Witness ==
    /\ GradientReturned
    /\ call.width >= 3 /\ call.height >= 2
    /\ call.color1[1] > call.color2[1] /\ call.color1[3] < call.color2[3]
    /\ call.gradient[<<call.width - 1, 1>>][3] < call.color2[3]
    /\ call.gradient[<<1, 0>>] # call.gradient[<<0, 0>>]

(***************************************************************************)
(* C12.  add_shadow returns an image of size (w + offset_x + 2*blur,       *)
(* h + offset_y + 2*blur); in the column assembler (offset (20,20), blur   *)
(* 20) every shadowed cell, pasted at (0, row_index*(cell_height+margin)), *)
(* lies inside the column canvas of size (cell_width + 60,                 *)
(* rows*cell_height + (rows-1)*margin + 60).                               *)
(***************************************************************************)
C12_ShadowedCellsFit ==
    \A c \in cells :
        LET cfg == POSTER_GEN_CONFIG
            canvas == <<cfg.CELL_WIDTH + 60,
                        cfg.ROWS * cfg.CELL_HEIGHT + (cfg.ROWS - 1) * cfg.MARGIN + 60>>
        IN /\ c.size = <<cfg.CELL_WIDTH + 20 + 2 * 20, cfg.CELL_HEIGHT + 20 + 2 * 20>>
           /\ c.x = 0 /\ c.y = c.row_index * (cfg.CELL_HEIGHT + cfg.MARGIN)
           /\ c.row_index \in 0..(cfg.ROWS - 1)
           /\ c.x + c.size[1] <= canvas[1]
           /\ c.y + c.size[2] <= canvas[2]
           /\ column_canvas_size(cfg) = canvas

\* A cell of the last row was pasted with a margin between the rows: its
\* shadow ends on the last line of the canvas.
C12_Witness ==
    \E c \in cells :
        /\ POSTER_GEN_CONFIG.MARGIN > 0
        /\ c.row_index = POSTER_GEN_CONFIG.ROWS - 1
        /\ c.y + c.size[2] = column_canvas_size(POSTER_GEN_CONFIG)[2]

(***************************************************************************)
(* C13.  With SAVE_COLUMNS enabled, the paths written by the run for one   *)
(* library are disjoint from the paths written by the run for another, so  *)
(* no file of an earlier run is written again by a later one.              *)
(***************************************************************************)
C13_RunsWriteDisjointPaths ==
    POSTER_GEN_CONFIG.SAVE_COLUMNS =>
        \A i \in DOMAIN finished :
            /\ finished[i].name # name => Range(finished[i].written) \cap Range(written) = {}
            /\ \A j \in DOMAIN finished :
                   finished[i].name # finished[j].name =>
                       Range(finished[i].written) \cap Range(finished[j].written) = {}

\* C13 for the files that carry the library name: the final PNG and the
\* pre-rotation column PNGs of an earlier run are not written again.
C13_NamedFilesAreKept ==
    \A i \in DOMAIN finished :
        \A q \in Range(finished[i].written) \cap Range(written) :
            \E col \in 0..2 : q = column_rotated_path(name, col)

(***************************************************************************)
(* C14.  For every English title the number of lines drawn by              *)
(* draw_multiline_text_on_image is the number of tokens counted when the   *)
(* font was sized (word_count), each line is one token, no line is empty,  *)
(* and the accent block is 55 + (line_count-1)*(font_size+line_spacing)    *)
(* high for that count, whatever the spaces of the title.                  *)
(***************************************************************************)
EnglishDrawn == english_sizing.state = "sized" /\ pc \in {"save", "done"}

LinesDrawn == SelectSeq(drawn, LAMBDA d : d.what = "line")

AccentsDrawn == SelectSeq(drawn, LAMBDA d : d.what = "accent")

C14_OneLinePerToken ==
    EnglishDrawn =>
        /\ Len(LinesDrawn) = english_sizing.word_count
        /\ \A i \in DOMAIN LinesDrawn :
               /\ LinesDrawn[i].text # <<>>
               /\ \A j \in DOMAIN LinesDrawn[i].text : LinesDrawn[i].text[j] # " "
        /\ Len(AccentsDrawn) = 1
        /\ AccentsDrawn[1].height =
               55 + (english_sizing.word_count - 1) * (english_sizing.font_size.floor + 5)

\* C14 for the titles whose tokens are separated by single spaces, with no
\* space before the first or after the last.
SingleSpaced(text) ==
    /\ text[1] # " " /\ text[Len(text)] # " "
    /\ \A i \in 1..(Len(text) - 1) : ~(text[i] = " " /\ text[i + 1] = " ")

C14_SingleSpacedTitles ==
    (EnglishDrawn /\ SingleSpaced(titles.eng)) => C14_OneLinePerToken

(***************************************************************************)
(* C15.  Every colour get_random_color returns has channels in 0..255,     *)
(* for every image mode and pixel value and on the exception fallback, and *)
(* the sampled coordinate lies inside the image.                           *)
(***************************************************************************)
AccentPicked == call.fn = "get_random_color" /\ call.point # <<>>

AccentReturned == call.fn = "get_random_color" /\ call.state = "returned"

C15_AccentChannelsAre8Bit ==
    /\ AccentPicked =>
           /\ call.point[1] \in 0..(call.img.size[1] - 1)
           /\ call.point[2] \in 0..(call.img.size[2] - 1)
    /\ AccentReturned =>
           \A k \in DOMAIN call.result : call.result[k] \in 0..255

\* C15 without the RGB branch: the coordinate, the colours of the RGBA and
\* converted images, and the fallback.
C15_OutsideRGB ==
    (call.fn = "get_random_color" /\ (call.img.mode # "RGB" \/ ~call.img.readable))
        => C15_AccentChannelsAre8Bit

(***************************************************************************)
(* C16.  The column canvas (cell_width + 60 by column_height + 60), pasted *)
(* at (paste_x, paste_y), has its centre at the centre of the square       *)
(* staging canvas, to within one pixel on each axis.                       *)
(***************************************************************************)
\* Twice the distance, on axis k, from the centre of a box of the given
\* extent pasted at pos to the centre of the staging canvas.
TwiceOffCentre(pos, extent, canvas) == Abs(2 * pos + extent - canvas)

C16_ColumnCanvasIsCentred ==
    \A k \in DOMAIN placed : \A axis \in 1..2 :
        TwiceOffCentre(placed[k].paste[axis], placed[k].column_size[axis],
                       placed[k].canvas) <= 2

\* What is centred is the column without the room of its shadows
\* (cell_width by column_height): the canvas itself is 30 pixels off.
C16_CellAreaIsCentred ==
    \A k \in DOMAIN placed : \A axis \in 1..2 :
        /\ TwiceOffCentre(placed[k].paste[axis], placed[k].column_size[axis] - 60,
                          placed[k].canvas) <= 1
        /\ TwiceOffCentre(placed[k].paste[axis], placed[k].column_size[axis],
                          placed[k].canvas) \in {59, 60}

(***************************************************************************)
(* C17.  The stages of a run occur in the order colour sampling, gradient, *)
(* column assembly, rotation and placement, overlay, final write.  The     *)
(* final PNG is written at most once, after every column has been placed   *)
(* and the overlay drawn: a run that returns False has not written it, a   *)
(* run that returns True has written it exactly once.                      *)
(***************************************************************************)
ColumnCount == Min(GroupCount(poster_files, POSTER_GEN_CONFIG.ROWS), POSTER_GEN_CONFIG.COLS)

AllColumnsPlaced == poster_files # <<>> /\ Len(placed) = ColumnCount

C17_StagesInOrderWriteLast ==
    /\ gradient # <<>> => Len(sampled) = 2
    /\ (cells # {} \/ placed # <<>>) => gradient # <<>>
    /\ \A k \in DOMAIN placed : placed[k].col = k - 1 /\ placed[k].pastes \subseteq cells
    /\ \A c \in cells : c.col <= Len(placed)
    /\ (random_color # <<>> \/ drawn # <<>>) => AllColumnsPlaced
    /\ TimesWritten(output_path(name)) <= 1
    /\ FinalWritten =>
           /\ Returned /\ ret = "True"
           /\ AllColumnsPlaced
           /\ drawn # <<>> /\ drawn[1].what = "native"
           /\ titles.eng # <<>> => drawn[Len(drawn)].what = "accent"
           /\ written[Len(written)] = output_path(name)
    /\ (Returned /\ ret = "False") => ~FinalWritten
    /\ (Returned /\ ret = "True") => TimesWritten(output_path(name)) = 1

\* A run that returned True after three columns, one of them with an image
\* that failed, the column images saved on the way and the accent drawn.
C17_Witness ==
    /\ Returned /\ ret = "True" /\ FinalWritten
    /\ Len(placed) = 3 /\ Cardinality(cells) < 9
    /\ Len(written) = 7
    /\ drawn[Len(drawn)].what = "accent"

====
